---- MODULE Spec2Model ----
(***************************************************************************)
(* The lookup cache of pkg/cloudprovider/provider/aws/helper.go: getVpc    *)
(* and getDefaultAMIID, serialized by cacheLock in front of a go-cache     *)
(* store with a 5 minute default expiration.                               *)
(*                                                                         *)
(* Strings are sequences of tokens: a token is either the separator "-"    *)
(* or a non-empty run of characters without "-".  fmt.Sprintf with a       *)
(* format "x-%s-%s" is the concatenation of the token sequences, so two    *)
(* formatted keys are the same Go string exactly when their token          *)
(* sequences are equal.  Time is counted in minutes.                       *)
(***************************************************************************)
EXTENDS Integers, Sequences, FiniteSets, TLC

\* ---------------------------------------------------------------- bounds
MaxCalls == 3
MaxTime == 5
MaxVpcs == 2
MaxImages == 2
StampsBefore == 1
StampsAfter == 2

\* the concurrent callers
Procs == {1, 2}

\* ---------------------------------------------------------------- inputs
\* the (region, vpc id) pairs getVpc is called with
VpcLookups == {<<(<<"a", "-", "b">>), (<<"c">>)>>, <<(<<"a">>), (<<"b", "-", "c">>)>>}
\* the (region, operating system) pairs getDefaultAMIID is called with
AmiLookups == {<<(<<"a">>), (<<"ubuntu">>)>>, <<(<<"a">>), (<<"plan9">>)>>}
Descs == {"vpcA", "vpcB"}
ImageIds == {"ami1", "ami2"}

\* ------------------------------------------------------ program constants
\* DefaultExpiration, were the store built with a shorter default
DefaultExpirationShort == 5 - 1

\* gocache.New(5*time.Minute, 5*time.Minute): default expiration, in minutes
DefaultExpiration == 5
\* gocache.New(5*time.Minute, 5*time.Minute): cleanup interval, in minutes
CleanupInterval == 5

\* the operating systems amiFilters has an entry for, with their filters
amiFilters ==
    (<<"coreos">> :> [description |-> "CoreOS Container Linux stable*",
                      owner |-> "595879546273"])
 @@ (<<"centos">> :> [description |-> "CentOS Linux 7 x86_64 HVM EBS*",
                      owner |-> "679593333241"])
 @@ (<<"ubuntu">> :> [description |-> "Canonical, Ubuntu, 18.04 LTS, amd64 bionic image build on ????-??-??",
                      owner |-> "099720109477"])

\* ------------------------------------------------------------ cache keys
\* fmt.Sprintf("vpc-%s-%s", region, id)
VpcCacheKey(r, id) == <<"vpc", "-">> \o r \o <<"-">> \o id

\* fmt.Sprintf("ami-id-%s-%s", region, os)
AmiCacheKey(r, os) == <<"ami", "-", "id", "-">> \o r \o <<"-">> \o os

CacheKey(o, r, x) == IF o = "vpc" THEN VpcCacheKey(r, x) ELSE AmiCacheKey(r, x)

\* ------------------------------------------------------- the go-cache store
\* an item of the store
Item(v, e) == [val |-> v, exp |-> e]

\* an item is expired once its expiration has passed
Expired(it, t) == t >= it.exp

\* cache.Get: found only if the key is set and its item is not expired
Found(c, k, t) == k \in DOMAIN c /\ ~Expired(c[k], t)

\* cache.SetDefault: the item replaces the key's item, expiring after the default
SetDefault(c, k, v, t) ==
    [x \in DOMAIN c \cup {k} |-> IF x = k THEN Item(v, t + DefaultExpiration) ELSE c[x]]

\* the janitor's DeleteExpired
DeleteExpired(c, t) == [x \in {k \in DOMAIN c : ~Expired(c[k], t)} |-> c[x]]

EmptyCache == [x \in {} |-> Item([type |-> "none", v |-> ""], 0)]

\* the record of a SetDefault: what was written and when
Written(v, t) == [val |-> v, at |-> t]

NeverWritten == [x \in {} |-> Written([type |-> "none", v |-> ""], 0)]

\* ------------------------------------------------------------ values
VpcVal(d) == [type |-> "vpc", v |-> d]
AmiVal(i) == [type |-> "ami", v |-> i]
NoVal == [type |-> "none", v |-> ""]

\* An error value: the context message it carries, the error it was made
\* from, and whether it is classified as terminal.
NoErr == [msg |-> "", cause |-> "", terminal |-> FALSE]

\* the err of a failed DescribeVpcs or DescribeImages, as the client returns it
UpstreamErr == [msg |-> "", cause |-> "upstream", terminal |-> FALSE]

\* fmt.Errorf(msg, ...): a plain error
Errorf(msg) == [msg |-> msg, cause |-> "", terminal |-> FALSE]

\* awsErrorToTerminalError(err, msg): err as a terminal error with the context msg
awsErrorToTerminalError(err, msg) == [msg |-> msg, cause |-> err.cause, terminal |-> TRUE]

NoRes == [kind |-> "none", val |-> NoVal, err |-> NoErr]
ValRes(v) == [kind |-> "val", val |-> v, err |-> NoErr]
ErrRes(e) == [kind |-> "err", val |-> NoVal, err |-> e]
PanicRes == [kind |-> "panic", val |-> NoVal, err |-> NoErr]

\* ------------------------------------------------- creation timestamps
\* A CreationDate is a text that time.Parse(time.RFC3339, .) accepts, standing
\* for the instant `at` units of time after 0001-01-01T00:00:00Z, the zero
\* Time (before it when negative), or a text it rejects.
Garbage == [parses |-> FALSE, at |-> 0]
Stamp(n) == [parses |-> TRUE, at |-> n]
Dates == {Garbage} \cup {Stamp(n) : n \in (0 - StampsBefore)..StampsAfter}

\* itime, _ := time.Parse(time.RFC3339, s): the zero Time when s does not parse
ParseTime(d) == IF d.parses THEN d.at ELSE 0

\* After, were a candidate of equal time to replace the current one
AfterOrEqual(v, i) == v >= i

\* vtime.After(itime)
After(v, i) == v > i

Image(id, d) == [ImageId |-> id, CreationDate |-> d]

RECURSIVE SelectFrom(_, _, _)
\* the loop of getDefaultAMIID over imagesOut.Images, from index i on
SelectFrom(images, i, image) ==
    IF i > Len(images) THEN image
    ELSE SelectFrom(images, i + 1,
                    IF After(ParseTime(images[i].CreationDate),
                             ParseTime(image.CreationDate))
                    THEN images[i] ELSE image)

\* image := imagesOut.Images[0]; for _, v := range imagesOut.Images { ... }
SelectImage(images) == SelectFrom(images, 1, images[1])

\* ------------------------------------------------- external responses
SeqsUpTo(S, n) == UNION {[1..m -> S] : m \in 0..n}

OkResp(items) == [err |-> FALSE, items |-> items]
ErrResp == [err |-> TRUE, items |-> <<>>]
NoResp == [err |-> FALSE, items |-> <<>>]

\* what DescribeVpcs may answer
VpcResponses == {ErrResp} \cup {OkResp(s) : s \in SeqsUpTo(Descs, MaxVpcs)}

Images == {Image(i, d) : i \in ImageIds, d \in Dates}

\* what DescribeImages may answer
AllAmiResponses == {ErrResp} \cup {OkResp(s) : s \in SeqsUpTo(Images, MaxImages)}

\* the answers of DescribeImages the concurrent specification draws from
AmiResponses ==
    {ErrResp, OkResp(<<>>),
     OkResp(<<Image("ami1", Stamp(1))>>),
     OkResp(<<Image("ami1", Stamp(1)), Image("ami2", Stamp(2))>>),
     OkResp(<<Image("ami1", Garbage), Image("ami2", Stamp(0))>>)}

VARIABLES
    pc,         \* where each caller is in its call
    op,         \* "vpc" (getVpc), "ami" (getDefaultAMIID) or "none"
    region,     \* *client.Config.Region of the call
    param,      \* the vpc id or the operating system of the call
    cacheLock,  \* whether the mutex is locked
    cache,      \* the store's items
    now,        \* the clock
    ncalls,     \* calls made so far
    res,        \* what the call returns
    resp,       \* what the external query answered
    nget,       \* cache.Get calls of the current call
    nquery,     \* external queries of the current call
    nset,       \* cache.SetDefault calls of the current call
    nlock,      \* cacheLock.Lock calls of the current call
    setT,       \* when the current call wrote the store
    afterFail,  \* the call got the lock right after a failed miss of its key
    lastFail,   \* the key of the last released call if it failed a miss
    conc,       \* the callers racing this call for its unpopulated key
    written,    \* per key, the last SetDefault: when and what
    snap        \* the store as it was when the lock was taken

vars == <<pc, op, region, param, cacheLock, cache, now, ncalls, res, resp,
          nget, nquery, nset, nlock, setT, afterFail, lastFail,
          conc, written, snap>>

Key(p) == CacheKey(op[p], region[p], param[p])

InProgress(p) == pc[p] \in {"waitlock", "locked", "inflight", "ret"}

Init ==
    /\ pc = [p \in Procs |-> "idle"]
    /\ op = [p \in Procs |-> "none"]
    /\ region = [p \in Procs |-> <<>>]
    /\ param = [p \in Procs |-> <<>>]
    /\ cacheLock = FALSE
    /\ cache = EmptyCache
    /\ now = 0
    /\ ncalls = 0
    /\ res = [p \in Procs |-> NoRes]
    /\ resp = [p \in Procs |-> NoResp]
    /\ nget = [p \in Procs |-> 0]
    /\ nquery = [p \in Procs |-> 0]
    /\ nset = [p \in Procs |-> 0]
    /\ nlock = [p \in Procs |-> 0]
    /\ setT = [p \in Procs |-> 0]
    /\ afterFail = [p \in Procs |-> FALSE]
    /\ lastFail = <<>>
    /\ conc = [p \in Procs |-> {}]
    /\ written = NeverWritten
    /\ snap = EmptyCache

\* Call, were the operating system checked before cacheLock is taken
CallCheckFirst(p, o, r, x) ==
    /\ pc[p] \in {"idle", "done"}
    /\ ncalls < MaxCalls
    /\ ncalls' = ncalls + 1
    /\ pc' = [pc EXCEPT ![p] = IF o = "ami" /\ x \notin DOMAIN amiFilters
                                THEN "done" ELSE "waitlock"]
    /\ op' = [op EXCEPT ![p] = o]
    /\ region' = [region EXCEPT ![p] = r]
    /\ param' = [param EXCEPT ![p] = x]
    /\ res' = [res EXCEPT ![p] = IF o = "ami" /\ x \notin DOMAIN amiFilters
                                  THEN ErrRes(Errorf("operating system not supported"))
                                  ELSE NoRes]
    /\ resp' = [resp EXCEPT ![p] = NoResp]
    /\ nget' = [nget EXCEPT ![p] = 0]
    /\ nquery' = [nquery EXCEPT ![p] = 0]
    /\ nset' = [nset EXCEPT ![p] = 0]
    /\ nlock' = [nlock EXCEPT ![p] = 0]
    /\ setT' = [setT EXCEPT ![p] = 0]
    /\ afterFail' = [afterFail EXCEPT ![p] = FALSE]
    /\ conc' = [q \in Procs |-> IF q = p THEN {} ELSE conc[q] \ {p}]
    /\ UNCHANGED <<cacheLock, cache, now, lastFail, written, snap>>

\* a caller enters getVpc or getDefaultAMIID
Call(p, o, r, x) ==
    /\ pc[p] \in {"idle", "done"}
    /\ ncalls < MaxCalls
    /\ ncalls' = ncalls + 1
    /\ pc' = [pc EXCEPT ![p] = "waitlock"]
    /\ op' = [op EXCEPT ![p] = o]
    /\ region' = [region EXCEPT ![p] = r]
    /\ param' = [param EXCEPT ![p] = x]
    /\ res' = [res EXCEPT ![p] = NoRes]
    /\ resp' = [resp EXCEPT ![p] = NoResp]
    /\ nget' = [nget EXCEPT ![p] = 0]
    /\ nquery' = [nquery EXCEPT ![p] = 0]
    /\ nset' = [nset EXCEPT ![p] = 0]
    /\ nlock' = [nlock EXCEPT ![p] = 0]
    /\ setT' = [setT EXCEPT ![p] = 0]
    /\ afterFail' = [afterFail EXCEPT ![p] = FALSE]
    /\ LET k == CacheKey(o, r, x)
           racing == {q \in Procs \ {p} : /\ InProgress(q)
                                          /\ op[q] = o
                                          /\ Key(q) = k
                                          /\ ~Found(cache, k, now)}
       IN conc' = [q \in Procs |-> IF q = p THEN racing
                                   ELSE IF q \in racing THEN conc[q] \cup {p}
                                   ELSE conc[q] \ {p}]
    /\ UNCHANGED <<cacheLock, cache, now, lastFail, written, snap>>

CallVpc(p, r, id) == Call(p, "vpc", r, id)

CallAmi(p, r, os) == Call(p, "ami", r, os)

\* Lock, were there one lock per cache key
LockPerKey(p) ==
    /\ pc[p] = "waitlock"
    /\ \A q \in Procs : pc[q] \in {"locked", "inflight", "ret"} => Key(q) # Key(p)
    /\ cacheLock' = TRUE
    /\ pc' = [pc EXCEPT ![p] = "locked"]
    /\ nlock' = [nlock EXCEPT ![p] = @ + 1]
    /\ afterFail' = [afterFail EXCEPT ![p] = (lastFail = Key(p))]
    /\ snap' = cache
    /\ UNCHANGED <<op, region, param, cache, now, ncalls, res, resp, nget,
                   nquery, nset, setT, lastFail, conc, written>>

\* cacheLock.Lock()
Lock(p) ==
    /\ pc[p] = "waitlock"
    /\ ~cacheLock
    /\ cacheLock' = TRUE
    /\ pc' = [pc EXCEPT ![p] = "locked"]
    /\ nlock' = [nlock EXCEPT ![p] = @ + 1]
    /\ afterFail' = [afterFail EXCEPT ![p] = (lastFail = Key(p))]
    /\ snap' = cache
    /\ UNCHANGED <<op, region, param, cache, now, ncalls, res, resp, nget,
                   nquery, nset, setT, lastFail, conc, written>>

\* Lookup, were the store not checked again once the lock is held
LookupNoCheck(p, type) ==
    /\ nget' = nget
    /\ pc' = [pc EXCEPT ![p] = "inflight"]
    /\ nquery' = [nquery EXCEPT ![p] = @ + 1]
    /\ UNCHANGED res

\* Lookup, were an item taken as found for as long as the store holds it
LookupNoExpiry(p, type) ==
    LET k == Key(p) IN
    /\ nget' = [nget EXCEPT ![p] = @ + 1]
    /\ IF k \in DOMAIN cache
       THEN /\ res' = [res EXCEPT ![p] = IF cache[k].val.type = type
                                          THEN ValRes(cache[k].val)
                                          ELSE PanicRes]
            /\ pc' = [pc EXCEPT ![p] = "ret"]
            /\ UNCHANGED nquery
       ELSE /\ pc' = [pc EXCEPT ![p] = "inflight"]
            /\ nquery' = [nquery EXCEPT ![p] = @ + 1]
            /\ UNCHANGED res

\* the cache check of a lookup: a hit returns the item, a miss issues the query
Lookup(p, type) ==
    LET k == Key(p) IN
    /\ nget' = [nget EXCEPT ![p] = @ + 1]
    /\ IF Found(cache, k, now)
       THEN /\ res' = [res EXCEPT ![p] = IF cache[k].val.type = type
                                          THEN ValRes(cache[k].val)
                                          ELSE PanicRes]
            /\ pc' = [pc EXCEPT ![p] = "ret"]
            /\ UNCHANGED nquery
       ELSE /\ pc' = [pc EXCEPT ![p] = "inflight"]
            /\ nquery' = [nquery EXCEPT ![p] = @ + 1]
            /\ UNCHANGED res

\* VpcGet, were a hit to store the item again (a sliding expiration)
VpcGetSliding(p) ==
    /\ pc[p] = "locked"
    /\ op[p] = "vpc"
    /\ Lookup(p, "vpc")
    /\ cache' = IF Found(cache, Key(p), now)
                THEN SetDefault(cache, Key(p), cache[Key(p)].val, now)
                ELSE cache
    /\ UNCHANGED <<nlock, op, region, param, cacheLock, now, ncalls, resp,
                   nset, setT, afterFail, lastFail, conc, written, snap>>

\* getVpc from the cache key to the DescribeVpcs request
VpcGet(p) ==
    /\ pc[p] = "locked"
    /\ op[p] = "vpc"
    /\ Lookup(p, "vpc")
    /\ UNCHANGED <<nlock, op, region, param, cacheLock, cache, now, ncalls, resp,
                   nset, setT, afterFail, lastFail, conc,
                   written, snap>>

\* a miss stores its result and returns it
Store(p, v) ==
    /\ cache' = SetDefault(cache, Key(p), v, now)
    /\ written' = [x \in DOMAIN written \cup {Key(p)} |->
                     IF x = Key(p) THEN Written(v, now) ELSE written[x]]
    /\ nset' = [nset EXCEPT ![p] = @ + 1]
    /\ setT' = [setT EXCEPT ![p] = now]
    /\ res' = [res EXCEPT ![p] = ValRes(v)]

\* Fail, were the failure cached under the key
FailNegCache(p, e) ==
    /\ res' = [res EXCEPT ![p] = ErrRes(e)]
    /\ cache' = SetDefault(cache, Key(p), NoVal, now)
    /\ nset' = [nset EXCEPT ![p] = @ + 1]
    /\ UNCHANGED <<written, setT>>

\* a miss fails: the error is returned
Fail(p, e) ==
    /\ res' = [res EXCEPT ![p] = ErrRes(e)]
    /\ UNCHANGED <<cache, written, nset, setT>>

\* VpcRespond, were only an empty answer rejected
VpcRespondFirst(p, r) ==
    /\ pc[p] = "inflight"
    /\ op[p] = "vpc"
    /\ resp' = [resp EXCEPT ![p] = r]
    /\ pc' = [pc EXCEPT ![p] = "ret"]
    /\ IF r.err THEN Fail(p, awsErrorToTerminalError(UpstreamErr, "failed to list vpc's"))
       ELSE IF Len(r.items) = 0 THEN Fail(p, Errorf("unable to find specified vpc"))
       ELSE Store(p, VpcVal(r.items[1]))
    /\ UNCHANGED <<nlock, op, region, param, cacheLock, now, ncalls, nget, nquery,
                   afterFail, lastFail, conc, snap>>

\* VpcRespond, were a failed DescribeVpcs issued once more before giving up
VpcRespondRetry(p, r) ==
    /\ pc[p] = "inflight"
    /\ op[p] = "vpc"
    /\ resp' = [resp EXCEPT ![p] = r]
    /\ IF r.err /\ nquery[p] < 2
       THEN /\ nquery' = [nquery EXCEPT ![p] = @ + 1]
            /\ UNCHANGED <<pc, res, cache, written, nset, setT>>
       ELSE /\ pc' = [pc EXCEPT ![p] = "ret"]
            /\ UNCHANGED nquery
            /\ IF r.err
               THEN Fail(p, awsErrorToTerminalError(UpstreamErr, "failed to list vpc's"))
               ELSE IF Len(r.items) # 1
                    THEN Fail(p, Errorf("unable to find specified vpc"))
                    ELSE Store(p, VpcVal(r.items[1]))
    /\ UNCHANGED <<nlock, op, region, param, cacheLock, now, ncalls, nget,
                   afterFail, lastFail, conc, snap>>

\* getVpc from the answer of DescribeVpcs to its return
VpcRespond(p, r) ==
    /\ pc[p] = "inflight"
    /\ op[p] = "vpc"
    /\ resp' = [resp EXCEPT ![p] = r]
    /\ pc' = [pc EXCEPT ![p] = "ret"]
    /\ IF r.err THEN Fail(p, awsErrorToTerminalError(UpstreamErr, "failed to list vpc's"))
       ELSE IF Len(r.items) # 1 THEN Fail(p, Errorf("unable to find specified vpc"))
       ELSE Store(p, VpcVal(r.items[1]))
    /\ UNCHANGED <<nlock, op, region, param, cacheLock, now, ncalls, nget, nquery,
                   afterFail, lastFail, conc, snap>>

\* AmiGet, were the store read before the operating system is checked
AmiGetCheckLate(p) ==
    /\ pc[p] = "locked"
    /\ op[p] = "ami"
    /\ Lookup(p, "ami")
    /\ UNCHANGED <<nlock, op, region, param, cacheLock, cache, now, ncalls, resp,
                   nset, setT, afterFail, lastFail, conc,
                   written, snap>>

\* getDefaultAMIID from the amiFilters check to the DescribeImages request
AmiGet(p) ==
    /\ pc[p] = "locked"
    /\ op[p] = "ami"
    /\ IF param[p] \notin DOMAIN amiFilters
       THEN /\ res' = [res EXCEPT ![p] = ErrRes(Errorf("operating system not supported"))]
            /\ pc' = [pc EXCEPT ![p] = "ret"]
            /\ UNCHANGED <<nget, nquery>>
       ELSE Lookup(p, "ami")
    /\ UNCHANGED <<nlock, op, region, param, cacheLock, cache, now, ncalls, resp,
                   nset, setT, afterFail, lastFail, conc,
                   written, snap>>

\* AmiRespond, were the chosen *ec2.Image stored in place of its id string
AmiRespondStoresImage(p, r) ==
    /\ pc[p] = "inflight"
    /\ op[p] = "ami"
    /\ resp' = [resp EXCEPT ![p] = r]
    /\ pc' = [pc EXCEPT ![p] = "ret"]
    /\ IF r.err THEN Fail(p, UpstreamErr)
       ELSE IF Len(r.items) = 0 THEN Fail(p, Errorf("could not find Image"))
       ELSE /\ Store(p, [type |-> "image", v |-> SelectImage(r.items).ImageId])
    /\ UNCHANGED <<nlock, op, region, param, cacheLock, now, ncalls, nget, nquery,
                   afterFail, lastFail, conc, snap>>

\* AmiRespond, were the id of the first image stored and the chosen one returned
AmiRespondCacheFirst(p, r) ==
    /\ pc[p] = "inflight"
    /\ op[p] = "ami"
    /\ resp' = [resp EXCEPT ![p] = r]
    /\ pc' = [pc EXCEPT ![p] = "ret"]
    /\ IF r.err THEN Fail(p, UpstreamErr)
       ELSE IF Len(r.items) = 0 THEN Fail(p, Errorf("could not find Image"))
       ELSE /\ cache' = SetDefault(cache, Key(p), AmiVal(r.items[1].ImageId), now)
            /\ written' = [x \in DOMAIN written \cup {Key(p)} |->
                             IF x = Key(p) THEN Written(AmiVal(r.items[1].ImageId), now)
                             ELSE written[x]]
            /\ nset' = [nset EXCEPT ![p] = @ + 1]
            /\ setT' = [setT EXCEPT ![p] = now]
            /\ res' = [res EXCEPT ![p] = ValRes(AmiVal(SelectImage(r.items).ImageId))]
    /\ UNCHANGED <<nlock, op, region, param, cacheLock, now, ncalls, nget, nquery,
                   afterFail, lastFail, conc, snap>>

\* getDefaultAMIID from the answer of DescribeImages to its return
AmiRespond(p, r) ==
    /\ pc[p] = "inflight"
    /\ op[p] = "ami"
    /\ resp' = [resp EXCEPT ![p] = r]
    /\ pc' = [pc EXCEPT ![p] = "ret"]
    /\ IF r.err THEN Fail(p, UpstreamErr)
       ELSE IF Len(r.items) = 0 THEN Fail(p, Errorf("could not find Image"))
       ELSE Store(p, AmiVal(SelectImage(r.items).ImageId))
    /\ UNCHANGED <<nlock, op, region, param, cacheLock, now, ncalls, nget, nquery,
                   afterFail, lastFail, conc, snap>>

\* Unlock, were the lock released before `return v, nil` only and not deferred
UnlockOnSuccess(p) ==
    /\ pc[p] = "ret"
    /\ cacheLock' = IF res[p].kind = "val" THEN FALSE ELSE cacheLock
    /\ pc' = [pc EXCEPT ![p] = "done"]
    /\ lastFail' = IF res[p].kind = "err" /\ nget[p] > 0 THEN Key(p) ELSE <<>>
    /\ snap' = EmptyCache
    /\ resp' = [resp EXCEPT ![p] = NoResp]
    /\ UNCHANGED <<nlock, op, region, param, cache, now, ncalls, res, nget,
                   nquery, nset, setT, afterFail, conc,
                   written>>

\* defer cacheLock.Unlock()
Unlock(p) ==
    /\ pc[p] = "ret"
    /\ cacheLock' = FALSE
    /\ pc' = [pc EXCEPT ![p] = "done"]
    /\ lastFail' = IF res[p].kind = "err" /\ nget[p] > 0 THEN Key(p) ELSE <<>>
    /\ snap' = EmptyCache
    /\ resp' = [resp EXCEPT ![p] = NoResp]
    /\ UNCHANGED <<nlock, op, region, param, cache, now, ncalls, res, nget,
                   nquery, nset, setT, afterFail, conc,
                   written>>

\* a minute passes. The clock is read from the first write on: while nothing
\* was ever stored no step depends on it.
Tick ==
    /\ now < MaxTime
    /\ DOMAIN written # {}
    /\ now' = now + 1
    /\ UNCHANGED <<nlock, pc, op, region, param, cacheLock, cache, ncalls, res, resp,
                   nget, nquery, nset, setT, afterFail,
                   lastFail, conc, written, snap>>

\* the store's janitor deletes the expired items
Janitor ==
    /\ now >= CleanupInterval
    /\ \E k \in DOMAIN cache : Expired(cache[k], now)
    /\ cache' = DeleteExpired(cache, now)
    /\ UNCHANGED <<nlock, pc, op, region, param, cacheLock, now, ncalls, res, resp,
                   nget, nquery, nset, setT, afterFail,
                   lastFail, conc, written, snap>>

Next ==
    \/ \E p \in Procs, l \in VpcLookups : CallVpc(p, l[1], l[2])
    \/ \E p \in Procs, l \in AmiLookups : CallAmi(p, l[1], l[2])
    \/ \E p \in Procs : Lock(p)
    \/ \E p \in Procs : VpcGet(p)
    \/ \E p \in Procs, r \in VpcResponses : VpcRespond(p, r)
    \/ \E p \in Procs : AmiGet(p)
    \/ \E p \in Procs, r \in AmiResponses : AmiRespond(p, r)
    \/ \E p \in Procs : Unlock(p)
    \/ Tick
    \/ Janitor

Spec == Init /\ [][Next]_vars

\* ------------------------------------------------------------ the claims
Unsupported(p) == op[p] = "ami" /\ param[p] \notin DOMAIN amiFilters

Holding(p) == pc[p] \in {"locked", "inflight", "ret"}

\* the store holds nothing that was not there when the lock was taken
NothingStored == \A k \in DOMAIN cache : k \in DOMAIN snap /\ cache[k] = snap[k]

\* C1, as stated: of the callers racing for the same unpopulated key at most
\* one issues the external query, and all of them return the same outcome.
C1_CoalescingAsStated ==
    \A p \in Procs : \A q \in conc[p] :
        /\ ~(nquery[p] >= 1 /\ nquery[q] >= 1)
        /\ (pc[p] = "done" /\ pc[q] = "done") => res[p] = res[q]

\* C1, amended: once one of the callers racing for the same unpopulated key has
\* populated it, every other of them that checks the store before that item
\* expires (5 minutes) issues no query and returns the populator's value; a
\* caller that finds the key unpopulated issues its own query.
C1_CoalescingAmended ==
    [][\A p \in Procs :
         (pc[p] = "locked" /\ pc'[p] # "locked") =>
            /\ \A q \in conc[p] :
                  (pc[q] = "done" /\ nset[q] >= 1 /\ now < setT[q] + 5) =>
                     nquery'[p] = 0 /\ res'[p] = res[q] /\ res[q].kind = "val"
            /\ (conc[p] # {} /\ ~Unsupported(p) /\ ~Found(cache, Key(p), now)) =>
                  nquery'[p] = 1]_vars

\* C1: two callers raced for an unpopulated key, one populated it and the other
\* returned the same value without a query.
C1_Witness ==
    \E p \in Procs : \E q \in conc[p] :
        /\ pc[p] = "done" /\ pc[q] = "done"
        /\ nset[q] = 1 /\ nquery[q] = 1
        /\ nget[p] = 1 /\ nquery[p] = 0
        /\ res[p].kind = "val" /\ res[p] = res[q]

\* C2: a lookup that fails on the miss path has written nothing: no item is new
\* or changed, its key is still not found; and the lookup that next takes the
\* lock for the same key issues the external query again.
C2_NoNegativeCaching ==
    \A p \in Procs :
        /\ (pc[p] = "ret" /\ res[p].kind = "err" /\ nquery[p] >= 1) =>
              /\ nset[p] = 0
              /\ NothingStored
              /\ ~Found(cache, Key(p), now)
        /\ (afterFail[p] /\ pc[p] \in {"inflight", "ret", "done"}) => nquery[p] = 1

\* C2: a lookup took the lock right after a failed miss of its key, queried
\* again and failed again.
C2_Witness ==
    \E p \in Procs :
        /\ afterFail[p] /\ pc[p] = "ret"
        /\ nquery[p] = 1 /\ res[p].kind = "err"

\* C3: getDefaultAMIID for an operating system without an amiFilters entry
\* returns the error with no external query, no read and no write of the
\* store, whatever the store holds.
C3_UnsupportedShortCircuit ==
    \A p \in Procs :
        Unsupported(p) =>
            /\ pc[p] # "inflight"
            /\ nquery[p] = 0 /\ nget[p] = 0 /\ nset[p] = 0
            /\ pc[p] \in {"ret", "done"} =>
                  res[p] = ErrRes(Errorf("operating system not supported"))
            /\ pc[p] = "ret" => NothingStored

\* C3: an unsupported operating system has been rejected while the store holds
\* an item.
C3_Witness ==
    \E p \in Procs :
        /\ Unsupported(p) /\ pc[p] = "ret" /\ res[p].kind = "err"
        /\ \E k \in DOMAIN cache : Found(cache, k, now)

\* C4, as stated: a lookup for an unrecognized operating system never holds
\* cacheLock and never waits for it.
C4_FailsBeforeLockAsStated ==
    \A p \in Procs :
        Unsupported(p) => /\ ~Holding(p)
                          /\ nlock[p] = 0
                          /\ ~(pc[p] = "waitlock" /\ cacheLock)

\* C4, amended: a lookup for an unrecognized operating system takes cacheLock
\* first (so it can wait for another caller's miss in flight) and fails while
\* holding it, before the store is read or the external query issued.
C4_FailsUnderLock ==
    \A p \in Procs :
        Unsupported(p) =>
            /\ res[p].kind = "err" => nlock[p] = 1 /\ nget[p] = 0 /\ nquery[p] = 0
            /\ pc[p] = "ret" => cacheLock /\ res[p].kind = "err"
            /\ pc[p] = "done" => res[p].kind = "err"

\* C4: a lookup for an unrecognized operating system waits for the lock while
\* another caller's miss is in flight.
C4_Witness ==
    \E p, q \in Procs :
        /\ Unsupported(p) /\ pc[p] = "waitlock"
        /\ pc[q] = "inflight"

\* C5: getVpc returns a descriptor, and writes the store, only when DescribeVpcs
\* answered exactly one; on an error or on 0 or 2 and more descriptors it
\* returns an error and writes nothing.
C5_AmbiguityRejection ==
    \A p \in Procs :
        (op[p] = "vpc" /\ pc[p] = "ret" /\ nquery[p] >= 1) =>
            IF ~resp[p].err /\ Len(resp[p].items) = 1
            THEN /\ res[p] = ValRes(VpcVal(resp[p].items[1]))
                 /\ nset[p] = 1
                 /\ written[Key(p)] = Written(VpcVal(resp[p].items[1]), setT[p])
                 /\ Key(p) \in DOMAIN cache =>
                       cache[Key(p)] = Item(VpcVal(resp[p].items[1]), setT[p] + 5)
            ELSE /\ res[p].kind = "err"
                 /\ nset[p] = 0
                 /\ NothingStored
                 /\ ~Found(cache, Key(p), now)

\* C5: DescribeVpcs answered two descriptors and getVpc returns an error.
C5_Witness ==
    \E p \in Procs :
        /\ op[p] = "vpc" /\ pc[p] = "ret"
        /\ ~resp[p].err /\ Len(resp[p].items) = 2
        /\ res[p].kind = "err" /\ nset[p] = 0

\* C6, as stated: for every non-empty answer of DescribeImages,
\* getDefaultAMIID returns and caches the id of a candidate whose timestamp is
\* the latest of those that parse; one that does not parse is returned only
\* when none parses.
C6_NewestWinsAsStated ==
    \A p \in Procs :
        (op[p] = "ami" /\ pc[p] = "ret" /\ nquery[p] >= 1
            /\ ~resp[p].err /\ Len(resp[p].items) > 0) =>
        LET items == resp[p].items
            parsing == {i \in 1..Len(items) : items[i].CreationDate.parses}
        IN /\ res[p].kind = "val"
           /\ written[Key(p)].val = res[p].val
           /\ \E i \in 1..Len(items) :
                 /\ res[p].val = AmiVal(items[i].ImageId)
                 /\ parsing # {} =>
                       /\ i \in parsing
                       /\ \A j \in parsing :
                             items[j].CreationDate.at <= items[i].CreationDate.at

\* C7, as stated: two lookups have the same cache key exactly when they have
\* the same operation, region and parameter.
C7_KeyInjectiveAsStated ==
    \A p, q \in Procs :
        (nget[p] >= 1 /\ nget[q] >= 1) =>
            (Key(p) = Key(q) <=>
                (op[p] = op[q] /\ region[p] = region[q] /\ param[p] = param[q]))

\* C8: a read of a key is a hit exactly when the key was last written less than
\* 5 minutes ago, and then yields what was written, whether or not the janitor
\* has deleted the item.
C8_Expiration ==
    /\ \A k \in DOMAIN written :
          /\ Found(cache, k, now) <=> now < written[k].at + 5
          /\ Found(cache, k, now) => cache[k].val = written[k].val
    /\ \A k \in DOMAIN cache : k \in DOMAIN written

\* C8: an item has expired, the janitor has deleted it, and a lookup of its key
\* has missed.
C8_Witness ==
    \E p \in Procs :
        /\ pc[p] = "inflight"
        /\ Key(p) \in DOMAIN written
        /\ Key(p) \notin DOMAIN cache
        /\ now >= written[Key(p)].at + 5

\* C9: no step changes the item of a key that is found, whatever other keys
\* are looked up or populated, and a hit returns the value last written under
\* its key.
C9_HitDeterminism ==
    [][/\ \A k \in DOMAIN cache :
             Found(cache, k, now) => (k \in DOMAIN cache' /\ cache'[k] = cache[k])
       /\ \A p \in Procs :
             (pc[p] = "locked" /\ pc'[p] = "ret" /\ ~Unsupported(p)) =>
                 /\ Found(cache, Key(p), now)
                 /\ res'[p] = ValRes(written[Key(p)].val)]_vars

\* C9: a lookup hits its key after another key was populated later than it.
C9_Witness ==
    \E p \in Procs :
        /\ pc[p] = "ret" /\ nget[p] = 1 /\ nquery[p] = 0 /\ res[p].kind = "val"
        /\ \E k \in DOMAIN cache :
              /\ k # Key(p)
              /\ Found(cache, k, now)
              /\ written[k].at > written[Key(p)].at

\* C10: at most one caller is between Lock and Unlock, so at most one external
\* query is in flight; while one is, every other caller in a call waits for the
\* lock and has neither read nor written the store.
C10_GlobalSerialization ==
    /\ Cardinality({p \in Procs : Holding(p)}) <= 1
    /\ cacheLock <=> (\E p \in Procs : Holding(p))
    /\ \A p, q \in Procs :
          (pc[p] = "inflight" /\ q # p /\ InProgress(q)) =>
              /\ pc[q] = "waitlock"
              /\ nget[q] = 0 /\ nset[q] = 0 /\ nquery[q] = 0

\* C10: a caller of an unrelated key waits for the lock while a miss is in
\* flight.
C10_Witness ==
    \E p, q \in Procs :
        /\ pc[p] = "inflight" /\ pc[q] = "waitlock"
        /\ op[q] # op[p] /\ ~Unsupported(q) /\ Key(q) # Key(p)

\* C11, as stated: when the external query fails, getVpc and getDefaultAMIID
\* return an error, never a value, that is terminal and carries a context
\* message; an answer of the wrong size is returned as a terminal error too.
C11_TerminalWithContextAsStated ==
    \A p \in Procs :
        (pc[p] = "ret" /\ nquery[p] >= 1) =>
            /\ resp[p].err =>
                  /\ res[p].kind = "err"
                  /\ res[p].err.terminal
                  /\ res[p].err.msg # ""
                  /\ res[p].err.cause = "upstream"
            /\ (~resp[p].err /\ res[p].kind = "err") => res[p].err.terminal

\* C12: a lookup that holds cacheLock and reads its key while the key has an
\* unexpired item returns that item's value, issues no external query, writes
\* nothing and leaves the item's expiration as it was, up to its Unlock; if a
\* caller it raced with populated the key, the value is the populator's.
C12_RecheckUnderLock ==
    [][/\ \A p \in Procs :
             (/\ pc[p] = "locked" /\ pc'[p] # "locked"
              /\ ~Unsupported(p) /\ Found(cache, Key(p), now)) =>
                 /\ pc'[p] = "ret"
                 /\ res'[p] = ValRes(cache[Key(p)].val)
                 /\ nquery'[p] = 0 /\ nset'[p] = 0
                 /\ cache' = cache /\ written' = written
                 /\ \A q \in conc[p] :
                       (pc[q] = "done" /\ nset[q] = 1 /\ Key(q) = Key(p)) =>
                           res'[p] = res[q]
       /\ \A p \in Procs :
             (/\ pc[p] = "ret" /\ pc'[p] # "ret"
              /\ nget[p] = 1 /\ nquery[p] = 0) =>
                 (nset'[p] = 0 /\ cache' = cache)]_vars

\* C12: a caller that waited for the lock while another populated its key has
\* read the key later, found an item with the populator's expiration and
\* returned the populator's value without a query.
C12_Witness ==
    \E p \in Procs : \E q \in conc[p] :
        /\ pc[p] = "ret" /\ nget[p] = 1 /\ nquery[p] = 0 /\ nset[p] = 0
        /\ pc[q] = "done" /\ nset[q] = 1 /\ Key(q) = Key(p)
        /\ now > setT[q]
        /\ Key(p) \in DOMAIN cache
        /\ cache[Key(p)] = Item(res[p].val, setT[q] + 5)
        /\ res[p] = res[q]

\* C13: a lookup that missed and whose query gave an acceptable answer has
\* written, once, the value it returns: from the write to the release of the
\* lock its key holds exactly that value with expiration write time + 5
\* minutes (unless 5 minutes have passed and the item was swept), and every
\* other key's item is as it was when the lock was taken.
C13_WritesWhatItReturns ==
    \A p \in Procs :
        (pc[p] = "ret" /\ nquery[p] = 1) =>
            /\ res[p].kind = "val" <=>
                  /\ ~resp[p].err
                  /\ IF op[p] = "vpc" THEN Len(resp[p].items) = 1
                                      ELSE Len(resp[p].items) >= 1
            /\ res[p].kind = "val" =>
                  /\ nset[p] = 1
                  /\ written[Key(p)] = Written(res[p].val, setT[p])
                  /\ IF Key(p) \in DOMAIN cache
                     THEN cache[Key(p)] = Item(res[p].val, setT[p] + 5)
                     ELSE now >= setT[p] + 5
                  /\ \A k \in DOMAIN cache \ {Key(p)} :
                        k \in DOMAIN snap /\ cache[k] = snap[k]
                  /\ \A k \in DOMAIN snap \ {Key(p)} :
                        k \in DOMAIN cache \/ Expired(snap[k], now)

\* C13: an image lookup missed, chose the second of two images, returned and
\* stored its id, while the item of a VPC key stayed as it was.
C13_Witness ==
    \E p \in Procs :
        /\ pc[p] = "ret" /\ op[p] = "ami" /\ nquery[p] = 1 /\ nset[p] = 1
        /\ Len(resp[p].items) = 2
        /\ res[p] = ValRes(AmiVal(resp[p].items[2].ImageId))
        /\ resp[p].items[1].ImageId # resp[p].items[2].ImageId
        /\ Key(p) \in DOMAIN cache
        /\ cache[Key(p)] = Item(res[p].val, setT[p] + 5)
        /\ \E k \in DOMAIN cache : k # Key(p) /\ cache[k].val.type = "vpc"

\* C14: a call issues at most one external query: none when the operating
\* system is unsupported or the key is found, exactly one when it is not; once
\* the query is answered the call returns what that answer gives, an error for
\* a failed query, and no second query follows.
C14_NoRetry ==
    \A p \in Procs :
        /\ nget[p] <= 1 /\ nquery[p] <= nget[p] /\ nset[p] <= nquery[p]
        /\ pc[p] = "inflight" => (nquery[p] = 1 /\ res[p] = NoRes)
        /\ pc[p] \in {"ret", "done"} =>
              IF Unsupported(p)
              THEN nget[p] = 0 /\ nquery[p] = 0
              ELSE /\ nget[p] = 1
                   /\ res[p].kind = "err" => nquery[p] = 1
                   /\ nquery[p] = 0 => (res[p].kind = "val" /\ nset[p] = 0)
        /\ (pc[p] = "ret" /\ nquery[p] = 1) =>
              /\ resp[p] # NoResp \/ res[p].kind = "err"
              /\ resp[p].err => (res[p].kind = "err" /\ nset[p] = 0)

\* C14: one caller has returned a hit without a query while another returns the
\* error of its one failed query.
C14_Witness ==
    \E p, q \in Procs :
        /\ pc[p] = "ret" /\ nquery[p] = 1 /\ resp[p].err /\ res[p].kind = "err"
        /\ pc[q] = "done" /\ nget[q] = 1 /\ nquery[q] = 0 /\ res[q].kind = "val"

\* The scheduling of the callers: a caller waiting for cacheLock gets it if it
\* is free again and again (a fair lock), a caller holding it takes its next
\* step, and every external query in flight is answered.
Fairness ==
    \A p \in Procs :
        /\ SF_vars(Lock(p))
        /\ WF_vars(VpcGet(p))
        /\ WF_vars(AmiGet(p))
        /\ WF_vars(\E r \in VpcResponses : VpcRespond(p, r))
        /\ WF_vars(\E r \in AmiResponses : AmiRespond(p, r))
        /\ WF_vars(Unlock(p))

FairSpec == Spec /\ Fairness

\* C15: every return releases cacheLock, the lock is free whenever no call is
\* in progress, and, with answered queries and a fair lock, every caller that
\* entered a lookup returns.
C15_ReleaseAndProgress ==
    /\ []((\A p \in Procs : ~InProgress(p)) => ~cacheLock)
    /\ [][\A p \in Procs : (pc[p] # "done" /\ pc'[p] = "done") =>
                               (cacheLock /\ ~cacheLock')]_vars
    /\ \A p \in Procs : InProgress(p) ~> (pc[p] = "done")

\* C15: a caller has returned an error and released the lock while the other
\* caller, which waited for it, now holds the lock.
C15_Witness ==
    \E p, q \in Procs :
        /\ pc[p] = "done" /\ res[p].kind = "err" /\ nlock[p] = 1
        /\ q \in conc[p] /\ pc[q] = "locked" /\ cacheLock

\* C16: a lookup that reads its key 5 minutes or more after the key's last
\* write, swept or not, is served no value from the store and issues one
\* query; a successful answer replaces the item by the fresh value with
\* expiration 5 minutes from then; and every value a caller is served was
\* written under its key less than 5 minutes before.
C16_RefreshAfterExpiry ==
    [][\A p \in Procs :
         /\ (/\ pc[p] = "locked" /\ pc'[p] # "locked" /\ ~Unsupported(p)
             /\ Key(p) \in DOMAIN written
             /\ now >= written[Key(p)].at + 5) =>
                (pc'[p] = "inflight" /\ nquery'[p] = 1 /\ res'[p] = NoRes)
         /\ (pc[p] = "inflight" /\ pc'[p] = "ret" /\ res'[p].kind = "val") =>
                /\ cache'[Key(p)] = Item(res'[p].val, now + 5)
                /\ written'[Key(p)] = Written(res'[p].val, now)
         /\ (res[p].kind # "val" /\ res'[p].kind = "val") =>
                /\ Key(p) \in DOMAIN written'
                /\ res'[p].val = written'[Key(p)].val
                /\ now < written'[Key(p)].at + 5]_vars

\* C16: a key populated by one call was looked up again 5 minutes or more
\* later; that lookup queried and now holds a different, fresh value with a
\* new expiration.
C16_Witness ==
    \E p, q \in Procs :
        /\ p # q /\ Key(p) = Key(q)
        /\ pc[q] = "done" /\ nset[q] = 1 /\ res[q].kind = "val"
        /\ pc[p] = "ret" /\ nquery[p] = 1 /\ nset[p] = 1
        /\ setT[p] >= setT[q] + 5
        /\ res[p].kind = "val" /\ res[p] # res[q]
        /\ Key(p) \in DOMAIN cache
        /\ cache[Key(p)] = Item(res[p].val, setT[p] + 5)

\* C17: an item appears or changes in the store only when a lookup for its
\* key gets a good answer to its query: under a "vpc-" key the one VPC of a
\* DescribeVpcs answer of exactly one, under an "ami-id-" key the id of one of
\* the images of a DescribeImages answer that is not empty. So every item has
\* the type its key's hit path asserts, and no type assertion fails.
C17_StoreProvenance ==
    [][/\ \A k \in DOMAIN cache' :
             (k \notin DOMAIN cache \/ cache'[k] # cache[k]) =>
                 \E p \in Procs :
                     /\ pc[p] = "inflight" /\ pc'[p] = "ret"
                     /\ k = Key(p)
                     /\ ~resp'[p].err
                     /\ IF op[p] = "vpc"
                        THEN /\ k = VpcCacheKey(region[p], param[p])
                             /\ Len(resp'[p].items) = 1
                             /\ cache'[k].val = VpcVal(resp'[p].items[1])
                        ELSE /\ k = AmiCacheKey(region[p], param[p])
                             /\ param[p] \in DOMAIN amiFilters
                             /\ \E i \in 1..Len(resp'[p].items) :
                                   cache'[k].val = AmiVal(resp'[p].items[i].ImageId)
       /\ \A k \in DOMAIN cache' :
             cache'[k].val.type = IF k[1] = "vpc" THEN "vpc" ELSE "ami"
       /\ \A p \in Procs : res'[p].kind # "panic"]_vars

\* C17: with a VPC stored under a "vpc-" key, an image lookup hit its
\* "ami-id-" key and returned the stored id string.
C17_Witness ==
    \E p \in Procs :
        /\ pc[p] = "ret" /\ op[p] = "ami" /\ nget[p] = 1 /\ nquery[p] = 0
        /\ res[p].kind = "val" /\ res[p].val.type = "ami"
        /\ Key(p)[1] = "ami"
        /\ \E k \in DOMAIN cache : k[1] = "vpc" /\ cache[k].val.type = "vpc"

\* One caller of getDefaultAMIID for a supported operating system, with every
\* answer of DescribeImages of up to MaxImages images.
SelNext ==
    \/ CallAmi(1, <<"a">>, <<"ubuntu">>)
    \/ Lock(1)
    \/ AmiGet(1)
    \/ \E r \in AllAmiResponses : AmiRespond(1, r)
    \/ Unlock(1)

SelSpec == Init /\ [][SelNext]_vars

\* C18: the image chosen from a non-empty answer is the earliest in the list
\* among those whose parsed timestamp no other exceeds (an unparsable one
\* parsing as the zero time): a candidate replaces the current one only when
\* strictly after it, so of the images sharing the latest timestamp, or of
\* all of them when none parses, the first is chosen.
C18_StableSelection ==
    \A p \in Procs :
        (/\ pc[p] = "ret" /\ op[p] = "ami" /\ nquery[p] = 1
         /\ ~resp[p].err /\ Len(resp[p].items) >= 1) =>
            LET images == resp[p].items
                T(i) == ParseTime(images[i].CreationDate)
                latest == {i \in 1..Len(images) :
                              \A j \in 1..Len(images) : T(j) <= T(i)}
                first == CHOOSE i \in latest : \A j \in latest : i <= j
            IN res[p] = ValRes(AmiVal(images[first].ImageId))

\* C18: of two images with one and the same parseable timestamp and different
\* ids the first was returned.
C18_Witness ==
    \E p \in Procs :
        /\ pc[p] = "ret" /\ op[p] = "ami" /\ nquery[p] = 1
        /\ ~resp[p].err /\ Len(resp[p].items) = 2
        /\ resp[p].items[1].CreationDate = resp[p].items[2].CreationDate
        /\ resp[p].items[1].CreationDate.parses
        /\ resp[p].items[1].ImageId # resp[p].items[2].ImageId
        /\ res[p] = ValRes(AmiVal(resp[p].items[1].ImageId))

====
